---- MODULE Spec2Model ----
(***************************************************************************)
(* Model of blocklist/app.py: the block-list compiler                      *)
(* (compile_custom_blocklist), its cache (get_custom_script_cached) and    *)
(* the /custom.rsc request handler (custom_rsc).                           *)
(***************************************************************************)
EXTENDS Integers, Sequences, FiniteSets, TLC

\* ------------------------------------------------------------------ bounds

\* AGGREGATE_THRESHOLD is read from the environment; it ranges over 1..MaxThreshold.
MaxThreshold == 2
\* A feed holds at most MaxFeedLen lines.
MaxFeedLen == 2
\* A request selects at most MaxIds source ids (with repetitions).
MaxIds == 2

\* ------------------------------------------------------- addresses, networks

IPv4(a, b, c, d) == ((a * 256 + b) * 256 + c) * 256 + d

RECURSIVE Pow2(_)
Pow2(n) == IF n = 0 THEN 1 ELSE 2 * Pow2(n - 1)

\* ipaddress.IPv4Network(f"{ip}/{plen}", strict=False): host bits are masked.
IPv4Network(ip, plen) ==
    [addr |-> (ip \div Pow2(32 - plen)) * Pow2(32 - plen), plen |-> plen]

\* `ip in net` of ipaddress.
InNet(ip, n) == IPv4Network(ip, n.plen).addr = n.addr

A1 == IPv4(10, 0, 0, 1)
A2 == IPv4(10, 0, 0, 2)
B1 == IPv4(10, 0, 1, 1)

\* The addresses feeds may mention: two of one /24, one of another.
IPs == {A1, A2, B1}

NetA == IPv4Network(A1, 24)
NetB == IPv4Network(B1, 24)

\* ------------------------------------------------------------ configuration

GLOBAL_COMMENT == "compiled-blocklist"
\* A list name is the sequence of its characters.
MIKROTIK_LIST_NAME == <<"b", "l">>
\* A canonical timeout is <<days, hours, minutes, seconds>>; "02:00:00".
DEFAULT_TIMEOUT == <<0, 2, 0, 0>>

VARIABLES
    ALL_SOURCES,          \* the registry loaded from lists.yaml, in file order
    AGGREGATE_THRESHOLD,  \* int(os.getenv("AGGREGATE_THRESHOLD"))
    net,                  \* the network: url -> what requests.get gives now
    hash_order,           \* the iteration order the process's hash seed gives sets
    phase,                \* compiler harness: "idle" or "ran"
    call,                 \* the arguments of the last compile_custom_blocklist call
    ret,                  \* what that call returned or raised
    CACHE_TTL,            \* int(os.getenv("CACHE_TTL"))
    whitelist_yaml,       \* whitelist.yaml on disk: its version and its entries
    YAML_WHITELIST_NETS,  \* the networks load_yaml_whitelist gave at start-up
    custom_cache,         \* _custom_cache: key -> [ts, data]
    now,                  \* time.time()
    threads,              \* the request each worker thread is handling
    served,               \* how many requests have been answered
    last,                 \* the request answered last, and what answering it did
    entry_version         \* key -> version of whitelist.yaml when its entry was stored

config == <<ALL_SOURCES, AGGREGATE_THRESHOLD, net, hash_order>>
harness == <<phase, call, ret>>
server == <<CACHE_TTL, whitelist_yaml, YAML_WHITELIST_NETS, custom_cache, now,
            threads, served, last, entry_version>>
vars == <<config, harness, server>>

URLs == {"u1", "u2"}

\* A source record as load_sources_from_yaml builds it.  Source 2 has a blank
\* name in lists.yaml ("  " strips to ""), so that its comment is what labels
\* its addresses; source 3 is a mirror of source 1 that is switched off.
Source(id, mode) ==
    [id |-> id,
     name |-> IF id = 2 THEN "" ELSE IF id = 1 THEN "feed-one" ELSE "mirror",
     url |-> IF id = 2 THEN "u2" ELSE "u1",
     is_active |-> id # 3,
     cidr_mode |-> mode,
     comment |-> IF id = 2 THEN "c-two" ELSE "c-one"]

\* The ids a request may name: the two active sources and the inactive one.
RequestIds == {1, 2, 3}

get_active_sources == SelectSeq(ALL_SOURCES, LAMBDA s : s.is_active)

\* ------------------------------------------------------------------- feeds

\* A feed line, already cut at the source's delimiter: the token is its first
\* field.  Tokens: a bare address, an address/prefix interface, or junk.
IpTok(a) == [kind |-> "ip", ip |-> a, plen |-> 32]
IfaceTok(a, p) == [kind |-> "iface", ip |-> a, plen |-> p]
JunkTok == [kind |-> "junk", ip |-> 0, plen |-> 0]

Lines == <<<<IpTok(A1)>>, <<IfaceTok(A2, 24), JunkTok>>, <<IpTok(B1)>>, <<JunkTok>>>>

RECURSIVE SeqsUpTo(_, _)
SeqsUpTo(S, n) ==
    IF n = 0 THEN {<< >>}
    ELSE LET shorter == SeqsUpTo(S, n - 1)
         IN shorter \cup {Append(q, x) : q \in shorter, x \in S}

\* sorted(S, key=int) for a set of integers.
RECURSIVE SortedInts(_)
SortedInts(S) ==
    IF S = {} THEN << >>
    ELSE LET m == CHOOSE x \in S : \A y \in S : x <= y
         IN <<m>> \o SortedInts(S \ {m})

\* The text made of the lines at the positions S of Lines.
TextOf(S) == LET idx == SortedInts(S) IN [i \in 1..Len(idx) |-> Lines[idx[i]]]

\* The feed texts: up to MaxFeedLen distinct lines (the order of the lines of
\* one feed is kept fixed), and two texts that repeat and reorder lines.
Texts ==
    {TextOf(S) : S \in {T \in SUBSET DOMAIN Lines : Cardinality(T) <= MaxFeedLen}}
        \cup {<<Lines[1], Lines[1]>>, <<Lines[3], Lines[1]>>}

\* What requests.get + raise_for_status give: a text, or an exception.
FetchOutcomes == {[ok |-> TRUE, text |-> t] : t \in Texts}
                     \cup {[ok |-> FALSE, text |-> << >>]}

\* fetch_list: any exception is swallowed and "" returned.
fetch_list(url) == IF net[url].ok THEN net[url].text ELSE << >>

\* extract_ipv4s_from_text: the token of each line is parsed as an address,
\* else as an interface (its address kept), else the line is skipped.
RECURSIVE extract_ipv4s_from_text(_)
extract_ipv4s_from_text(text) ==
    IF text = << >> THEN << >>
    ELSE LET line == Head(text)
             rest == extract_ipv4s_from_text(Tail(text))
         IN IF line = << >> THEN rest
            ELSE LET token == Head(line)
                 IN IF token.kind = "ip" THEN <<token.ip>> \o rest
                    ELSE IF token.kind = "iface" THEN <<token.ip>> \o rest
                    ELSE rest

\* ---------------------------------------------------------------- compiler

\* any(ip in net for net in wl_nets)
Whitelisted(ip, wl_nets) == \E i \in DOMAIN wl_nets : InNet(ip, wl_nets[i])

\* source_comment of the compile loop: the name, else the comment, else the default.
SourceComment(src) ==
    IF src.name # "" THEN src.name
    ELSE IF src.comment # "" THEN src.comment
    ELSE GLOBAL_COMMENT

\* The accumulators of compile_custom_blocklist before its loop.
EmptyAcc ==
    [all_ips |-> {}, explicit_nets24 |-> {},
     explicit_nets24_comment |-> << >>, ip_first_comment |-> << >>]

\* Mutant: a later source overwrites the comment of an address already seen.
AddAutoIpLastWins(acc, ip, source_comment) ==
    [acc EXCEPT !.all_ips = @ \cup {ip},
                !.ip_first_comment =
                    [k \in (DOMAIN @) \cup {ip} |->
                        IF k = ip THEN source_comment ELSE @[k]]]

\* The body of the AUTO32 loop for an address that is not whitelisted.
AddAutoIp(acc, ip, source_comment) ==
    IF ip \notin acc.all_ips
    THEN [acc EXCEPT !.all_ips = @ \cup {ip},
                     !.ip_first_comment =
                         IF ip \in DOMAIN @ THEN @ ELSE @ @@ (ip :> source_comment)]
    ELSE acc

\* The body of the EXPLICIT24 loop for an address that is not whitelisted.
AddExplicitIp(acc, ip, source_comment) ==
    LET n == IPv4Network(ip, 24)
    IN IF n \notin acc.explicit_nets24
       THEN [acc EXCEPT !.explicit_nets24 = @ \cup {n},
                        !.explicit_nets24_comment = @ @@ (n :> source_comment)]
       ELSE acc

\* One source's addresses, in feed order, through the whitelist and its mode.
RECURSIVE AddIps(_, _, _, _, _)
AddIps(acc, ips, cidr_mode, wl_nets, source_comment) ==
    IF ips = << >> THEN acc
    ELSE LET ip == Head(ips)
             next == IF Whitelisted(ip, wl_nets) THEN acc
                     ELSE IF cidr_mode = "24"
                          THEN AddExplicitIp(acc, ip, source_comment)
                          ELSE AddAutoIp(acc, ip, source_comment)
         IN AddIps(next, Tail(ips), cidr_mode, wl_nets, source_comment)

\* One iteration of `for src in selected`; an empty text is skipped.
SourceStep(acc, src, wl_nets) ==
    LET text == fetch_list(src.url)
    IN IF text = << >> THEN acc
       ELSE AddIps(acc, extract_ipv4s_from_text(text), src.cidr_mode, wl_nets,
                   SourceComment(src))

\* Mutant: a source whose fetch gives nothing ends the loop (break for continue).
RECURSIVE CompileLoopBreak(_, _, _)
CompileLoopBreak(acc, selected, wl_nets) ==
    IF selected = << >> THEN acc
    ELSE IF fetch_list(Head(selected).url) = << >> THEN acc
    ELSE CompileLoopBreak(SourceStep(acc, Head(selected), wl_nets),
                          Tail(selected), wl_nets)

\* `for src in selected`, in the order of the selection.
RECURSIVE CompileLoop(_, _, _)
CompileLoop(acc, selected, wl_nets) ==
    IF selected = << >> THEN acc
    ELSE CompileLoop(SourceStep(acc, Head(selected), wl_nets),
                     Tail(selected), wl_nets)

\* selected: the active sources the ids name, in the order of the ids; an id
\* that names no active source is passed over.
RECURSIVE Selected(_)
Selected(source_ids) ==
    IF source_ids = << >> THEN << >>
    ELSE LET sid == Head(source_ids)
             hit == SelectSeq(get_active_sources, LAMBDA s : s.id = sid)
         IN (IF hit = << >> THEN << >> ELSE <<hit[Len(hit)]>>)
                \o Selected(Tail(source_ids))

\* per_net24[net]: the AUTO32 addresses of one /24.
PerNet24(all_ips, n) == {ip \in all_ips : IPv4Network(ip, 24) = n}

\* Mutant: the threshold test with > for >=.
PromotedStrict(ips_set) == Cardinality(ips_set) > AGGREGATE_THRESHOLD

\* len(ips_set) >= AGGREGATE_THRESHOLD
Promoted(ips_set) == Cardinality(ips_set) >= AGGREGATE_THRESHOLD

AggregatedNets24(all_ips) ==
    {n \in {IPv4Network(ip, 24) : ip \in all_ips} : Promoted(PerNet24(all_ips, n))}

\* next(iter(ips_set)): the member the set's iteration order puts first.
FirstIp(ips_set, order) ==
    LET i == CHOOSE i \in DOMAIN order :
                 /\ order[i] \in ips_set
                 /\ \A j \in 1..(i - 1) : order[j] \notin ips_set
    IN order[i]

\* Mutant: the addresses of explicit /24s are not taken out.
RemainingIpsKeepExplicit(all_ips, explicit_nets24, aggregated_nets24) ==
    {ip \in all_ips : IPv4Network(ip, 24) \notin aggregated_nets24}

\* remaining_ips: the addresses no explicit and no promoted /24 holds.
RemainingIps(all_ips, explicit_nets24, aggregated_nets24) ==
    {ip \in all_ips : /\ IPv4Network(ip, 24) \notin explicit_nets24
                      /\ IPv4Network(ip, 24) \notin aggregated_nets24}

\* ---------------------------------------------------------------- renderer

\* The sort key (int(n.network_address), n.prefixlen), compared as a tuple.
NetKeyLeq(n, m) == n.addr < m.addr \/ (n.addr = m.addr /\ n.plen <= m.plen)

RECURSIVE SortedNets(_)
SortedNets(S) ==
    IF S = {} THEN << >>
    ELSE LET m == CHOOSE x \in S : \A y \in S : NetKeyLeq(x, y)
         IN <<m>> \o SortedNets(S \ {m})

\* A script line.  An address is written by its integer value and the text of
\* its prefix: "/24" for net.with_prefixlen, none for ip.exploded.
ContextLine ==
    [cmd |-> "/ip firewall address-list", list |-> << >>, address |-> 0,
     prefix |-> "", comment |-> "", timeout |-> << >>]

RemoveLine(list_name) ==
    [cmd |-> "remove", list |-> list_name, address |-> 0,
     prefix |-> "", comment |-> "", timeout |-> << >>]

AddLine(list_name, address, prefix, comment, timeout) ==
    [cmd |-> "add", list |-> list_name, address |-> address,
     prefix |-> prefix, comment |-> comment, timeout |-> timeout]

\* The comment of a /24 line: the explicit comment before the promoted one.
NetComment(acc, n, order) ==
    IF n \in DOMAIN acc.explicit_nets24_comment
    THEN acc.explicit_nets24_comment[n]
    ELSE LET first_ip == FirstIp(PerNet24(acc.all_ips, n), order)
         IN IF first_ip \in DOMAIN acc.ip_first_comment
            THEN acc.ip_first_comment[first_ip]
            ELSE GLOBAL_COMMENT

\* The lines of the script from the loop's accumulators.
Render(list_name, timeout, acc, order) ==
    LET aggregated_nets24 == AggregatedNets24(acc.all_ips)
        remaining_ips == RemainingIps(acc.all_ips, acc.explicit_nets24,
                                      aggregated_nets24)
        final_nets24 == acc.explicit_nets24 \cup aggregated_nets24
        nets == SortedNets(final_nets24)
        ips == SortedInts(remaining_ips)
    IN <<ContextLine, RemoveLine(list_name)>>
       \o [i \in 1..Len(nets) |->
              AddLine(list_name, nets[i].addr, "/24",
                      NetComment(acc, nets[i], order),
                      timeout)]
       \o [i \in 1..Len(ips) |->
              AddLine(list_name, ips[i], "",
                      IF ips[i] \in DOMAIN acc.ip_first_comment
                      THEN acc.ip_first_comment[ips[i]] ELSE GLOBAL_COMMENT,
                      timeout)]

Raised(msg) == [err |-> msg, script |-> << >>]
Returned(script) == [err |-> "", script |-> script]

\* compile_custom_blocklist in a process whose sets iterate in `order`: the
\* script, or the ValueError it raises.
CompileUnder(order, list_name, timeout, source_ids, whitelist_nets) ==
    IF source_ids = << >> THEN Raised("No sources selected")
    ELSE LET selected == Selected(source_ids)
         IN IF selected = << >> THEN Raised("Unknown sources")
            ELSE Returned(Render(list_name, timeout,
                                 CompileLoop(EmptyAcc, selected, whitelist_nets),
                                 order))

compile_custom_blocklist(list_name, timeout, source_ids, whitelist_nets) ==
    CompileUnder(hash_order, list_name, timeout, source_ids, whitelist_nets)

\* ------------------------------------------------- request normalisation

\* The characters [A-Za-z0-9_\-] among the characters names are made of.
NameChars == {"b", "l", "w", "n", "_", "-"}

\* The length normalize_list_name cuts a name to.
ListNameMax == 63

\* str.strip() on a sequence of characters.
RECURSIVE LStrip(_)
LStrip(q) == IF q # << >> /\ Head(q) = " " THEN LStrip(Tail(q)) ELSE q

RECURSIVE RStrip(_)
RStrip(q) ==
    IF q # << >> /\ q[Len(q)] = " " THEN RStrip(SubSeq(q, 1, Len(q) - 1)) ELSE q

Strip(q) == RStrip(LStrip(q))

\* normalize_list_name; a missing parameter is the empty name.
normalize_list_name(raw) ==
    IF raw = << >> THEN MIKROTIK_LIST_NAME
    ELSE LET stripped == Strip(raw)
             cleaned == [i \in DOMAIN stripped |->
                            IF stripped[i] \in NameChars THEN stripped[i] ELSE "_"]
         IN IF stripped = << >> THEN MIKROTIK_LIST_NAME
            ELSE IF cleaned = << >> THEN MIKROTIK_LIST_NAME
            ELSE SubSeq(cleaned, 1, IF Len(cleaned) < ListNameMax
                                    THEN Len(cleaned) ELSE ListNameMax)

MAX_SECONDS == 3 * 24 * 3600

\* A timeout parameter: missing ("none"), "HH:MM:SS" ("hms"), "<d>d HH:MM:SS"
\* ("dhms"), or a text neither pattern matches ("other").
RawTimeout(form, d, h, m, sec) == [form |-> form, d |-> d, h |-> h, m |-> m, s |-> sec]

\* parse_timeout: the canonical timeout, or the ValueError it raises.
parse_timeout(raw) ==
    IF raw.form = "none" THEN [err |-> "", value |-> DEFAULT_TIMEOUT]
    ELSE IF raw.form = "other"
    THEN [err |-> "Invalid timeout format", value |-> DEFAULT_TIMEOUT]
    ELSE LET days == IF raw.form = "dhms" THEN raw.d ELSE 0
             total == days * 86400 + raw.h * 3600 + raw.m * 60 + raw.s
             rem == total % 86400
         IN IF total <= 0 \/ total > MAX_SECONDS
            THEN [err |-> "Timeout exceeds maximum (3d) or is zero",
                  value |-> DEFAULT_TIMEOUT]
            ELSE [err |-> "",
                  value |-> <<total \div 86400, rem \div 3600,
                              (rem % 3600) \div 60, (rem % 3600) % 60>>]

\* A wl parameter: an IPv4 CIDR ("v4"), an IPv6 one ("v6"), blank, or no CIDR.
RawCidr(form, ip, plen) == [form |-> form, ip |-> ip, plen |-> plen]

\* _parse_whitelist_params: the networks, or the ValueError it raises.
RECURSIVE _parse_whitelist_params(_)
_parse_whitelist_params(wl_params) ==
    IF wl_params = << >> THEN [err |-> "", nets |-> << >>]
    ELSE LET entry == Head(wl_params)
             rest == _parse_whitelist_params(Tail(wl_params))
         IN IF entry.form = "blank" THEN rest
            ELSE IF entry.form = "bad"
            THEN [err |-> "Invalid whitelist CIDR", nets |-> << >>]
            ELSE IF entry.form = "v6"
            THEN [err |-> "Whitelist IPv6 not supported", nets |-> << >>]
            ELSE IF rest.err # "" THEN rest
            ELSE [err |-> "",
                  nets |-> <<IPv4Network(entry.ip, entry.plen)>> \o rest.nets]

\* make_error_script: the one diagnostic line.
make_error_script ==
    <<[cmd |-> ":log error", list |-> << >>, address |-> 0, prefix |-> "",
       comment |-> "Custom blocklist link is wrong, please check online !",
       timeout |-> << >>]>>

\* -------------------------------------------------------------------- cache

\* sorted(xs) of a list of integers, repetitions kept.
RECURSIVE SortedList(_)
SortedList(xs) ==
    IF xs = << >> THEN << >>
    ELSE LET rest == SortedList(Tail(xs))
             below == SelectSeq(rest, LAMBDA y : y < Head(xs))
             above == SelectSeq(rest, LAMBDA y : y >= Head(xs))
         IN below \o <<Head(xs)>> \o above

\* sorted(str(net) for net in nets), repetitions kept.  The texts of the
\* networks used here are ordered as their (address, prefix) pairs are.
RECURSIVE SortedNetList(_)
SortedNetList(nets) ==
    IF nets = << >> THEN << >>
    ELSE LET rest == SortedNetList(Tail(nets))
             below == SelectSeq(rest, LAMBDA y : ~NetKeyLeq(Head(nets), y))
             above == SelectSeq(rest, LAMBDA y : NetKeyLeq(Head(nets), y))
         IN below \o <<Head(nets)>> \o above

\* The key of get_custom_script_cached.
CacheKey(list_name, timeout, source_ids, whitelist_nets) ==
    <<list_name, timeout, SortedList(source_ids), SortedNetList(whitelist_nets)>>

\* entry and now - entry["ts"] <= CACHE_TTL
CacheHit(key) ==
    key \in DOMAIN custom_cache /\ now - custom_cache[key].ts <= CACHE_TTL

\* ------------------------------------------------------------------ server

\* The server answers at most MaxRequests requests, on NumThreads threads,
\* while the clock runs to MaxTime and whitelist.yaml is edited MaxEdits times.
MaxRequests == 2
NumThreads == 2
MaxTime == 2
MaxTtl == 1
MaxEdits == 1

Threads == 1..NumThreads

NoTimeout == RawTimeout("none", 0, 0, 0, 0)

DefaultReq == [list |-> << >>, timeout |-> NoTimeout, src |-> <<1>>, wl |-> << >>]

\* The requests: the default one with one parameter changed.
Requests ==
    {[DefaultReq EXCEPT !.src = q] :
        q \in {<< >>, <<1>>, <<1, 1>>, <<1, 2>>, <<2, 1>>, <<1, 3>>, <<3>>}}
    \cup {[DefaultReq EXCEPT !.list = q] : q \in {<<"w", " ", "n">>, <<" ">>}}
    \cup {[DefaultReq EXCEPT !.timeout = q] :
            q \in {RawTimeout("other", 0, 0, 0, 0), RawTimeout("hms", 0, 0, 0, 0),
                   RawTimeout("dhms", 3, 0, 0, 1), RawTimeout("hms", 0, 25, 0, 0),
                   RawTimeout("dhms", 1, 1, 0, 0)}}
    \cup {[DefaultReq EXCEPT !.wl = q] :
            q \in {<<RawCidr("bad", 0, 0)>>, <<RawCidr("v6", 0, 0)>>,
                   <<RawCidr("v4", A1, 32)>>,
                   <<RawCidr("v4", A1, 32), RawCidr("v4", A1, 32)>>}}

NoKey == CacheKey(<< >>, DEFAULT_TIMEOUT, << >>, << >>)

\* A thread with no request; a thread inside compile_custom_blocklist keeps
\* the request, its normalised parameters, the key, the time of the lookup
\* and what the lookup found.
IdleThread ==
    [pc |-> "idle", req |-> DefaultReq, list_name |-> << >>,
     timeout |-> DEFAULT_TIMEOUT, whitelist_nets |-> << >>, key |-> NoKey, ts |-> 0,
     had_entry |-> FALSE, age_ok |-> FALSE, version_same |-> FALSE]

\* What answering a request did (the record kept of the last answer).
Answered(req, passed, list_name, timeout, whitelist_nets, key, script, hit, fetched, stored, had_entry, age_ok, version_same) ==
    [req |-> req, passed |-> passed, list_name |-> list_name, timeout |-> timeout,
     whitelist_nets |-> whitelist_nets, key |-> key, script |-> script,
     hit |-> hit, fetched |-> fetched, stored |-> stored, had_entry |-> had_entry,
     age_ok |-> age_ok, version_same |-> version_same]

NoAnswer ==
    Answered(DefaultReq, FALSE, << >>, DEFAULT_TIMEOUT, << >>, NoKey, << >>,
             FALSE, FALSE, FALSE, FALSE, FALSE, FALSE)

\* whitelist.yaml as it may stand on disk, by version.
WhitelistFile(version) ==
    [version |-> version,
     cidrs |-> IF version % 2 = 0 THEN << >> ELSE <<RawCidr("v4", B1, 24)>>]

\* load_yaml_whitelist: the IPv4 networks of the file; other entries are skipped.
RECURSIVE load_yaml_whitelist(_)
load_yaml_whitelist(cidrs) ==
    IF cidrs = << >> THEN << >>
    ELSE (IF Head(cidrs).form = "v4"
          THEN <<IPv4Network(Head(cidrs).ip, Head(cidrs).plen)>> ELSE << >>)
             \o load_yaml_whitelist(Tail(cidrs))

\* The server before its first request.
ServerIdle ==
    /\ CACHE_TTL = MaxTtl
    /\ whitelist_yaml = WhitelistFile(0)
    /\ YAML_WHITELIST_NETS = load_yaml_whitelist(WhitelistFile(0).cidrs)
    /\ custom_cache = << >>
    /\ now = 0
    /\ threads = [t \in Threads |-> IdleThread]
    /\ served = 0
    /\ last = NoAnswer
    /\ entry_version = << >>

\* --------------------------------------------------------- compiler harness

\* The whitelists a call may carry (YAML and query networks together).
Whitelists ==
    {<< >>, <<IPv4Network(A1, 32)>>, <<IPv4Network(A1, 24)>>}

\* The selections of a call: up to MaxIds different ids in any order, and one
\* selection that names a source twice.
SourceIdLists ==
    {q \in SeqsUpTo(RequestIds, MaxIds) :
        \A i, j \in DOMAIN q : q[i] = q[j] => i = j} \cup {<<1, 1>>}

\* The iteration orders of a set of addresses under two hash seeds.
HashOrders == {SortedInts(IPs), <<B1, A2, A1>>}

NoCall == [list_name |-> << >>, timeout |-> DEFAULT_TIMEOUT, source_ids |-> << >>,
           whitelist_nets |-> << >>]

CInit ==
    /\ \E m1, m2 \in {"32", "24"} :
           ALL_SOURCES = <<Source(1, m1), Source(2, m2), Source(3, "32")>>
    /\ AGGREGATE_THRESHOLD \in 1..MaxThreshold
    /\ net \in [URLs -> FetchOutcomes]
    /\ hash_order \in HashOrders
    /\ phase = "idle"
    /\ call = NoCall
    /\ ret = Raised("")
    /\ ServerIdle

\* A first call of compile_custom_blocklist, on any selection and whitelist.
Compile ==
    /\ phase = "idle"
    /\ \E ids \in SourceIdLists, wl \in Whitelists :
           /\ call' = [list_name |-> MIKROTIK_LIST_NAME, timeout |-> DEFAULT_TIMEOUT,
                       source_ids |-> ids, whitelist_nets |-> wl]
           /\ ret' = compile_custom_blocklist(MIKROTIK_LIST_NAME, DEFAULT_TIMEOUT,
                                              ids, wl)
    /\ phase' = "ran"
    /\ UNCHANGED <<config, server>>

\* The same call again, over the same feeds.
Recompile ==
    /\ phase = "ran"
    /\ ret' = compile_custom_blocklist(call.list_name, call.timeout,
                                       call.source_ids, call.whitelist_nets)
    /\ UNCHANGED <<config, phase, call, server>>

\* The same scope again, its sources named in the opposite order.
CompileReordered ==
    /\ phase = "ran"
    /\ LET ids == [i \in DOMAIN call.source_ids |->
                      call.source_ids[Len(call.source_ids) + 1 - i]]
       IN /\ call' = [call EXCEPT !.source_ids = ids]
          /\ ret' = compile_custom_blocklist(call.list_name, call.timeout, ids,
                                             call.whitelist_nets)
    /\ UNCHANGED <<config, phase, server>>

\* The process is started again (sets now iterate in the new hash seed's
\* order) and the same call is made again, over the same feeds.
RestartRecompile ==
    /\ phase = "ran"
    /\ \E order \in HashOrders \ {hash_order} :
           /\ hash_order' = order
           /\ ret' = CompileUnder(order, call.list_name, call.timeout,
                                  call.source_ids, call.whitelist_nets)
    /\ UNCHANGED <<ALL_SOURCES, AGGREGATE_THRESHOLD, net, phase, call, server>>

RNext == Compile \/ Recompile \/ CompileReordered \/ RestartRecompile

\* One call of the compiler on any configuration, feeds and arguments.
SpecCompile == CInit /\ [][Compile]_vars

\* A call of the compiler and then calls on the same scope.
SpecRecompile == CInit /\ [][RNext]_vars

\* ------------------------------------------------------------ server steps

Init ==
    /\ ALL_SOURCES = <<Source(1, "32"), Source(2, "32"), Source(3, "32")>>
    /\ AGGREGATE_THRESHOLD = MaxThreshold
    /\ net = [u \in URLs |-> [ok |-> TRUE, text |-> <<Lines[1]>>]]
    /\ hash_order = SortedInts(IPs)
    /\ phase = "idle"
    /\ call = NoCall
    /\ ret = Raised("")
    /\ ServerIdle

InFlight == Cardinality({t \in Threads : threads[t].pc = "compiling"})

\* The clock advances.
Tick ==
    /\ now < MaxTime
    /\ now' = now + 1
    /\ UNCHANGED <<config, harness, CACHE_TTL, whitelist_yaml, YAML_WHITELIST_NETS,
                   custom_cache, threads, served, last, entry_version>>

\* The first feed changes upstream, or becomes unreachable.
FeedChange ==
    /\ \E o \in {[ok |-> TRUE, text |-> <<Lines[1]>>],
                 [ok |-> TRUE, text |-> <<Lines[1], Lines[3]>>],
                 [ok |-> FALSE, text |-> << >>]} \ {net["u1"]} :
           net' = [net EXCEPT !["u1"] = o]
    /\ UNCHANGED <<ALL_SOURCES, AGGREGATE_THRESHOLD, hash_order, harness, server>>

\* whitelist.yaml is edited on disk; the process does not read it again.
WhitelistEdit ==
    /\ whitelist_yaml.version < MaxEdits
    /\ whitelist_yaml' = WhitelistFile(whitelist_yaml.version + 1)
    /\ UNCHANGED <<config, harness, CACHE_TTL, YAML_WHITELIST_NETS, custom_cache,
                   now, threads, served, last, entry_version>>

\* A request is answered: the answer is recorded and the thread is free.
Answer(t, answer) ==
    /\ last' = answer
    /\ served' = served + 1
    /\ threads' = [threads EXCEPT ![t] = IdleThread]

\* custom_rsc up to the moment compile_custom_blocklist starts to fetch: the
\* parameters are normalised and checked, the cache is looked up, and the
\* selection is resolved.  Every exception is answered with the error script.
Begin(t) ==
    /\ threads[t].pc = "idle"
    /\ served + InFlight < MaxRequests
    /\ \E req \in Requests :
           LET list_name == normalize_list_name(req.list)
               timeout == parse_timeout(req.timeout)
               wl_nets_query == _parse_whitelist_params(req.wl)
               raised == timeout.err # "" \/ req.src = << >> \/ wl_nets_query.err # ""
               all_wl_nets == YAML_WHITELIST_NETS \o wl_nets_query.nets
               key == CacheKey(list_name, timeout.value, req.src, all_wl_nets)
               had_entry == key \in DOMAIN custom_cache
               age_ok == had_entry /\ now - custom_cache[key].ts <= CACHE_TTL
               version_same == had_entry /\ entry_version[key] = whitelist_yaml.version
           IN IF raised
              THEN /\ Answer(t, Answered(req, FALSE, list_name, timeout.value,
                                         << >>, NoKey, make_error_script, FALSE,
                                         FALSE, FALSE, FALSE, FALSE, FALSE))
                   /\ UNCHANGED <<custom_cache, entry_version>>
              ELSE IF CacheHit(key)
              THEN /\ Answer(t, Answered(req, TRUE, list_name, timeout.value,
                                         all_wl_nets, key, custom_cache[key].data,
                                         TRUE, FALSE, FALSE, had_entry, age_ok,
                                         version_same))
                   /\ UNCHANGED <<custom_cache, entry_version>>
              ELSE IF Selected(req.src) = << >>
              THEN /\ Answer(t, Answered(req, TRUE, list_name, timeout.value,
                                         all_wl_nets, key, make_error_script,
                                         FALSE, FALSE, FALSE, had_entry, age_ok,
                                         version_same))
                   /\ UNCHANGED <<custom_cache, entry_version>>
              ELSE /\ threads' = [threads EXCEPT ![t] =
                          [pc |-> "compiling", req |-> req, list_name |-> list_name,
                           timeout |-> timeout.value, whitelist_nets |-> all_wl_nets,
                           key |-> key, ts |-> now, had_entry |-> had_entry,
                           age_ok |-> age_ok, version_same |-> version_same]]
                   /\ UNCHANGED <<custom_cache, entry_version, served, last>>
    /\ UNCHANGED <<config, harness, CACHE_TTL, whitelist_yaml, YAML_WHITELIST_NETS, now>>

\* The rest of get_custom_script_cached: the feeds are fetched, the script is
\* compiled and stored under the key with the time of the lookup.
Finish(t) ==
    /\ threads[t].pc = "compiling"
    /\ LET th == threads[t]
           result == compile_custom_blocklist(th.list_name, th.timeout, th.req.src,
                                              th.whitelist_nets)
           entry == [ts |-> th.ts, data |-> result.script]
       IN /\ custom_cache' = [k \in (DOMAIN custom_cache) \cup {th.key} |->
                                 IF k = th.key THEN entry ELSE custom_cache[k]]
          /\ entry_version' = [k \in (DOMAIN entry_version) \cup {th.key} |->
                                  IF k = th.key THEN whitelist_yaml.version
                                  ELSE entry_version[k]]
          /\ Answer(t, Answered(th.req, TRUE, th.list_name, th.timeout,
                                th.whitelist_nets, th.key, result.script, FALSE,
                                TRUE, TRUE, th.had_entry, th.age_ok,
                                th.version_same))
    /\ UNCHANGED <<config, harness, CACHE_TTL, whitelist_yaml, YAML_WHITELIST_NETS, now>>

Next ==
    \/ Tick
    \/ FeedChange
    \/ WhitelistEdit
    \/ \E t \in Threads : Begin(t)
    \/ \E t \in Threads : Finish(t)

Spec == Init /\ [][Next]_vars

\* ------------------------------------------- what the compiler claims speak of

Range(q) == {q[i] : i \in DOMAIN q}

\* The add lines of a script, by position.
AddIdx(script) == {i \in DOMAIN script : script[i].cmd = "add"}

\* The address is blocked by the line: it is the line's address, or lies in its /24.
Covers(line, ip) ==
    IF line.prefix = "/24" THEN IPv4Network(ip, 24).addr = line.address
    ELSE line.address = ip

\* A feed text names the address on some line.
Mentions(text, ip) ==
    \E i \in DOMAIN text :
        /\ text[i] # << >>
        /\ Head(text[i]).kind \in {"ip", "iface"}
        /\ Head(text[i]).ip = ip

\* The active sources an id names.
ActiveWithId(sid) == {src \in Range(ALL_SOURCES) : src.is_active /\ src.id = sid}

\* The id names a source in the given mode whose feed was fetched and names the
\* address, and the whitelist of the call lets the address pass.
Contributes(sid, ip, explicit) ==
    \E src \in ActiveWithId(sid) :
        /\ (src.cidr_mode = "24") = explicit
        /\ net[src.url].ok
        /\ Mentions(net[src.url].text, ip)
        /\ ~ \E i \in DOMAIN call.whitelist_nets : InNet(ip, call.whitelist_nets[i])

SurvivingAuto ==
    {ip \in IPs : \E sid \in Range(call.source_ids) : Contributes(sid, ip, FALSE)}

SurvivingExplicit ==
    {ip \in IPs : \E sid \in Range(call.source_ids) : Contributes(sid, ip, TRUE)}

Surviving == SurvivingAuto \cup SurvivingExplicit

Compiled == phase = "ran" /\ ret.err = ""

\* The /24s the script adds, and the addresses it adds singly.
Nets24Added == {ret.script[i].address : i \in {j \in AddIdx(ret.script) : ret.script[j].prefix = "/24"}}
IpsAdded == {ret.script[i].address : i \in {j \in AddIdx(ret.script) : ret.script[j].prefix = ""}}

AutoIn(n) == {ip \in SurvivingAuto : IPv4Network(ip, 24).addr = n}
ExplicitIn(n) == {ip \in SurvivingExplicit : IPv4Network(ip, 24).addr = n}

\* C1: no address inside a whitelist network is blocked by the script: it is
\* the address of no /32 line and lies in no /24 the script adds.
C1_WhitelistedNeverBlocked ==
    Compiled =>
        \A ip \in IPs :
            (\E i \in DOMAIN call.whitelist_nets : InNet(ip, call.whitelist_nets[i]))
                => \A i \in AddIdx(ret.script) : ~Covers(ret.script[i], ip)

\* C2: the add lines partition the surviving addresses: each surviving address
\* is covered by exactly one add line, no /32 line lies inside an added /24,
\* no /24 and no /32 is added twice, and every add line covers a survivor.
C2_Partition ==
    Compiled =>
        LET sc == ret.script
            adds == AddIdx(sc)
            surviving == Surviving
        IN /\ \A ip \in surviving : Cardinality({i \in adds : Covers(sc[i], ip)}) = 1
           /\ \A i, j \in adds :
                  (sc[i].prefix = "" /\ sc[j].prefix = "/24")
                      => ~Covers(sc[j], sc[i].address)
           /\ \A i, j \in adds :
                  i # j => <<sc[i].address, sc[i].prefix>> # <<sc[j].address, sc[j].prefix>>
           /\ \A i \in adds : \E ip \in surviving : Covers(sc[i], ip)

\* A compilation where an EXPLICIT24 /24 also holds an AUTO32 address, beside
\* a /32 line for an address outside it.
C2_Witness ==
    /\ Compiled
    /\ \E n \in Nets24Added : ExplicitIn(n) # {} /\ AutoIn(n) # {}
    /\ IpsAdded # {}

\* C3: the /24s added are exactly the /24s of the surviving EXPLICIT24
\* addresses together with the /24s holding at least AGGREGATE_THRESHOLD
\* surviving AUTO32 addresses; one address below the threshold (and nothing
\* explicit) the /24 is absent and its members are /32 lines, at the threshold
\* it is present and none of its members is.
C3_Nets24Exact ==
    Compiled =>
        LET auto == SurvivingAuto
            explicit == SurvivingExplicit
            nets == Nets24Added
            ips == IpsAdded
            AutoOf(n) == {ip \in auto : IPv4Network(ip, 24).addr = n}
        IN /\ nets =
                  {IPv4Network(ip, 24).addr : ip \in explicit}
                      \cup {n \in {IPv4Network(ip, 24).addr : ip \in auto} :
                               Cardinality(AutoOf(n)) >= AGGREGATE_THRESHOLD}
           /\ \A n \in {IPv4Network(ip, 24).addr : ip \in auto} :
                  /\ (/\ Cardinality(AutoOf(n)) = AGGREGATE_THRESHOLD - 1
                      /\ \A ip \in explicit : IPv4Network(ip, 24).addr # n)
                         => (n \notin nets /\ AutoOf(n) \subseteq ips)
                  /\ Cardinality(AutoOf(n)) >= AGGREGATE_THRESHOLD
                         => (n \in nets /\ AutoOf(n) \cap ips = {})

\* A compilation with one /24 at the threshold and another one address below it.
C3_Witness ==
    /\ Compiled
    /\ \E n, m \in {IPv4Network(ip, 24).addr : ip \in SurvivingAuto} :
           /\ Cardinality(AutoIn(n)) = AGGREGATE_THRESHOLD
           /\ AutoIn(m) # {}
           /\ Cardinality(AutoIn(m)) = AGGREGATE_THRESHOLD - 1
           /\ ExplicitIn(m) = {}
           /\ ExplicitIn(n) = {}

\* The positions of the selection whose source contributes the address in AUTO32 mode.
AutoContributors(ip) ==
    {i \in DOMAIN call.source_ids : Contributes(call.source_ids[i], ip, FALSE)}

\* The comment of the source the selection names at a position.
CommentAt(i) ==
    LET src == CHOOSE src \in ActiveWithId(call.source_ids[i]) : TRUE
    IN SourceComment(src)

\* C4: an address contributed in AUTO32 mode is added at most once, and a /32
\* line for it carries the comment of the first source of the selection, in
\* the order of the selection, that contributes it.
C4_FirstSourceComment ==
    Compiled =>
        \A ip \in IPs :
            AutoContributors(ip) # {} =>
                LET sc == ret.script
                    first == CHOOSE i \in AutoContributors(ip) :
                                 \A j \in AutoContributors(ip) : i <= j
                IN /\ Cardinality({i \in AddIdx(sc) : Covers(sc[i], ip)}) <= 1
                   /\ \A i \in AddIdx(sc) :
                          (sc[i].prefix = "" /\ sc[i].address = ip)
                              => sc[i].comment = CommentAt(first)

\* An address two sources with different comments contribute is a /32 line.
C4_Witness ==
    /\ Compiled
    /\ \E ip \in IpsAdded :
           \E i, j \in AutoContributors(ip) : i < j /\ CommentAt(i) # CommentAt(j)

\* The ids of the selection whose source's fetch fails.
FailedIds ==
    {sid \in Range(call.source_ids) :
        \E src \in ActiveWithId(sid) : ~net[src.url].ok}

Without(ids, sid) == SelectSeq(ids, LAMBDA x : x # sid)

\* C9: a failed fetch raises nothing, and the script is the one the selection
\* without the failing source gives over the same feeds.
C9_FailureIsolated ==
    phase = "ran" =>
        /\ ret.err # "" => \A sid \in Range(call.source_ids) : ActiveWithId(sid) = {}
        /\ \A sid \in FailedIds :
               LET rest == compile_custom_blocklist(call.list_name, call.timeout,
                               Without(call.source_ids, sid), call.whitelist_nets)
               IN rest.err = "" => ret = rest

\* The first source of the selection fails and a later one has its addresses added.
C9_Witness ==
    /\ Compiled
    /\ Len(call.source_ids) > 1
    /\ call.source_ids[1] \in FailedIds
    /\ AddIdx(ret.script) # {}

\* The addresses and networks of a script, in its order.
Addresses(script) == [i \in DOMAIN script |-> <<script[i].address, script[i].prefix>>]

\* C8: compiling the same scope again over the same feeds gives the same
\* script, and naming the same sources in another order leaves the addresses
\* and networks of the script and their order as they were.
C8_Deterministic ==
    [][(/\ phase = "ran"
        /\ net' = net
        /\ call'.list_name = call.list_name
        /\ call'.timeout = call.timeout
        /\ call'.whitelist_nets = call.whitelist_nets
        /\ Range(call'.source_ids) = Range(call.source_ids))
           => /\ call' = call => ret' = ret
              /\ Addresses(ret'.script) = Addresses(ret.script)]_vars


\* --------------------------------------------- what the server claims speak of

\* C5: at most one computation is in flight for one key: no two threads are
\* inside compile_custom_blocklist for the same key.
C5_SingleFlight ==
    \A t1, t2 \in Threads :
        (t1 # t2 /\ threads[t1].pc = "compiling" /\ threads[t2].pc = "compiling")
            => threads[t1].key # threads[t2].key

\* C6: a request that finds an entry no older than the TTL, stored under the
\* version of whitelist.yaml that still stands, is answered from the entry
\* without a fetch; one that finds the entry older, or stored under another
\* version of whitelist.yaml, is answered by a fresh compilation that is stored.
C6_CacheCorrect ==
    (served > 0 /\ last.passed /\ last.had_entry) =>
        /\ (last.age_ok /\ last.version_same) => (last.hit /\ ~last.fetched)
        /\ (~last.age_ok \/ ~last.version_same)
               => (~last.hit /\ last.fetched /\ last.stored)

\* The request carries what the claim calls a validation error.
ValidationError(req) ==
    \/ \E i \in DOMAIN Strip(req.list) : Strip(req.list)[i] \notin NameChars
    \/ parse_timeout(req.timeout).err # ""
    \/ _parse_whitelist_params(req.wl).err # ""
    \/ req.src = << >>
    \/ \E sid \in Range(req.src) : ActiveWithId(sid) = {}

\* C7: a request with a validation error is answered with the error script,
\* and answering it fetches no feed and stores no cache entry.
C7_RejectedAtBoundary ==
    (served > 0 /\ ValidationError(last.req)) =>
        /\ last.script = make_error_script
        /\ ~last.fetched
        /\ ~last.stored

\* The scopes seen: of the threads that are compiling and of the last answer
\* that passed the parameter checks.
ScopesSeen ==
    {[list_name |-> threads[t].list_name, timeout |-> threads[t].timeout,
      src |-> threads[t].req.src, wl |-> threads[t].whitelist_nets,
      key |-> threads[t].key] : t \in {u \in Threads : threads[u].pc = "compiling"}}
    \cup (IF served > 0 /\ last.passed
          THEN {[list_name |-> last.list_name, timeout |-> last.timeout,
                 src |-> last.req.src, wl |-> last.whitelist_nets, key |-> last.key]}
          ELSE {})

\* C10: two requests have the same key exactly when their list names and
\* timeouts are equal and their source ids and whitelist networks are equal
\* as sets.
C10_KeyBySets ==
    \A a, b \in ScopesSeen :
        (a.key = b.key) <=>
            (/\ a.list_name = b.list_name
             /\ a.timeout = b.timeout
             /\ Range(a.src) = Range(b.src)
             /\ Range(a.wl) = Range(b.wl))

====
